---- MODULE Spec2Model ----
(***************************************************************************)
(* Rate-limited GitHub Pages proxy layer: the in-memory rate limiter       *)
(* (_shared/rate-limiter.ts) and the request handlers list-pages-sites,    *)
(* get-pages-info, enable-github-pages, rename-branch and create-branch.   *)
(*                                                                         *)
(* One running module instance is modelled: the window map requestCounts   *)
(* is the only state shared between requests.  JavaScript runs a handler   *)
(* to completion between two await points, so every action below is the    *)
(* code between two awaits of one handler.                                 *)
(***************************************************************************)
EXTENDS Integers, Sequences, FiniteSets, TLC

\* ---------------------------------------------------------------- bounds
\* Largest capacity N explored (the source default is 100; the limiter is
\* parametric in config.maxRequests and every capacity 1..MaxN is explored).
MaxN == 2
\* Calls to checkRateLimit recorded per identity.
MaxCalls == 4
\* Value of Date.now() in the initial state, and the clock's step.
Epoch0 == 123
TickMs == 30000
MaxTicks == 2

\* ------------------------------------------------------------- constants
WindowMs == 60000

Users == {"u1", "u2"}

Max(a, b) == IF a >= b THEN a ELSE b

CeilDiv(a, b) == (a + b - 1) \div b

\* ------------------------------------------------------------------ state
VARIABLES
    now,            \* Date.now()
    maxRequests,    \* DEFAULT_RATE_LIMIT.maxRequests (capacity N)
    requestCounts,  \* Map<string, {count, resetAt}>, a partial function
    rlLog,          \* history: per identity, the checkRateLimit calls made
    req,            \* the requests in flight, one record per slot
    started,        \* number of requests received so far
    wizard,         \* the GitHubPages page: its React state and pending calls
    dialog          \* RepositorySettingsDialog: its danger zone

vars == <<now, maxRequests, requestCounts, rlLog, req, started, wizard, dialog>>

\* The edge functions' state, which the browser components never touch, and
\* the browser components' state, which the edge functions never touch.
Server == <<now, maxRequests, requestCounts, rlLog, req, started>>
Browser == <<wizard, dialog>>

DEFAULT_RATE_LIMIT == [maxRequests |-> maxRequests, windowMs |-> WindowMs]

\* ------------------------------------------------------- checkRateLimit
\* `!userData || now >= userData.resetAt`
windowExpiredAlways(store, userKey, t) == TRUE

windowExpired(store, userKey, t) ==
    userKey \notin DOMAIN store \/ t >= store[userKey].resetAt

\* userData after the get-or-initialise block
userDataOfCountOne(store, userKey, t, config) ==
    IF windowExpired(store, userKey, t)
    THEN [count |-> 1, resetAt |-> t + config.windowMs]
    ELSE store[userKey]

userDataOf(store, userKey, t, config) ==
    IF windowExpired(store, userKey, t)
    THEN [count |-> 0, resetAt |-> t + config.windowMs]
    ELSE store[userKey]

\* `userData.count++`
incrementOnlyAllowed(userData, config) ==
    IF userData.count < config.maxRequests
    THEN [userData EXCEPT !.count = @ + 1]
    ELSE userData

incrementCount(userData, config) ==
    [userData EXCEPT !.count = @ + 1]

\* `const allowed = userData.count <= config.maxRequests`
allowedStrict(count, config) == count < config.maxRequests

allowedOf(count, config) == count <= config.maxRequests

\* `Math.max(0, config.maxRequests - userData.count)`
remainingOf(count, config) == Max(0, config.maxRequests - count)

\* The map after the call: userData is the object held by the map, so the
\* increment is visible in the map.
storeAfterCopy(store, userKey, userData) ==
    [k \in DOMAIN store \cup {userKey} |->
        IF k = userKey THEN [userData EXCEPT !.count = @ - 1] ELSE store[k]]

storeAfter(store, userKey, userData) ==
    [k \in DOMAIN store \cup {userKey} |->
        IF k = userKey THEN userData ELSE store[k]]

\* checkRateLimit(userId, config) evaluated on map `store` at time t:
\* the new map and the returned {allowed, remaining, resetAt}.
checkRateLimitGlobal(store, userId, t, config) ==
    LET userData == incrementCount(userDataOf(store, userId, t, config), config)
    IN  [store  |-> [k \in DOMAIN store \cup {userId} |->
                        IF k = userId THEN userData
                        ELSE [store[k] EXCEPT !.count = @ + 1]],
         result |-> [allowed   |-> allowedOf(userData.count, config),
                     remaining |-> remainingOf(userData.count, config),
                     resetAt   |-> userData.resetAt]]

checkRateLimit(store, userId, t, config) ==
    LET userData == incrementCount(userDataOf(store, userId, t, config), config)
    IN  [store  |-> storeAfter(store, userId, userData),
         result |-> [allowed   |-> allowedOf(userData.count, config),
                     remaining |-> remainingOf(userData.count, config),
                     resetAt   |-> userData.resetAt]]

\* `if (now >= value.resetAt)` of the sweep
sweepableAlways(value, t) == TRUE

sweepable(value, t) == t >= value.resetAt

\* cleanupRateLimitStore() evaluated on map `store` at time t: the entries
\* with `now >= value.resetAt` are deleted.
cleanupRateLimitStoreAll(store, t) ==
    [k \in {} |-> store[k]]

cleanupRateLimitStore(store, t) ==
    [k \in {j \in DOMAIN store : ~sweepable(store[j], t)} |-> store[k]]

\* History entry of one call: time, the entry found, the result, the count
\* stored when the call returns.
LogEntry(store, userId, t, config, out) ==
    [at         |-> t,
     N          |-> config.maxRequests,
     had        |-> userId \in DOMAIN store,
     prevCount  |-> IF userId \in DOMAIN store THEN store[userId].count ELSE 0,
     prevReset  |-> IF userId \in DOMAIN store THEN store[userId].resetAt ELSE 0,
     result     |-> out.result,
     stored     |-> out.store[userId].count]

\* A call checkRateLimit(userId) made now with the default configuration:
\* its outcome, and its effect on the map (and on the history).
RateLimitCallLongWindow(userId) ==
    checkRateLimit(requestCounts, userId, now,
                   [DEFAULT_RATE_LIMIT EXCEPT !.windowMs = 2 * WindowMs])

RateLimitCall(userId) ==
    checkRateLimit(requestCounts, userId, now, DEFAULT_RATE_LIMIT)

ApplyRateLimitCallTwice(userId) ==
    LET first  == RateLimitCall(userId)
        second == checkRateLimit(first.store, userId, now, DEFAULT_RATE_LIMIT)
    IN  /\ requestCounts' = second.store
        /\ rlLog' = [rlLog EXCEPT ![userId] =
                        Append(Append(@, LogEntry(requestCounts, userId, now,
                                                  DEFAULT_RATE_LIMIT, first)),
                               LogEntry(first.store, userId, now,
                                        DEFAULT_RATE_LIMIT, second))]

ApplyRateLimitCall(userId) ==
    /\ requestCounts' = RateLimitCall(userId).store
    /\ rlLog' = [rlLog EXCEPT ![userId] =
                    Append(@, LogEntry(requestCounts, userId, now,
                                       DEFAULT_RATE_LIMIT, RateLimitCall(userId)))]

\* `Math.ceil(result.resetAt / 1000)`
resetSecondsFloor(resetAt) == resetAt \div 1000

resetSeconds(resetAt) == CeilDiv(resetAt, 1000)

\* getRateLimitHeaders(result, config): the three header values, as strings
getRateLimitHeaders(result, config) ==
    [limit     |-> ToString(config.maxRequests),
     remaining |-> ToString(result.remaining),
     reset     |-> ToString(resetSeconds(result.resetAt))]

\* ------------------------------------------------------- error sanitizer
\* _shared/error-sanitizer.ts: sanitizeGitHubError(status, rawError)
sanitizeGitHubError(status) ==
    CASE status \in {401, 403} -> [status |-> 403, message |-> "insufficient permission"]
      [] status = 404          -> [status |-> 404, message |-> "not found"]
      [] status = 422          -> [status |-> 400, message |-> "invalid request"]
      [] OTHER                 -> [status |-> 502, message |-> "upstream error"]

\* sanitizeGeneralError(error): a generic message, whatever the error
sanitizeGeneralError == "internal error"

\* ------------------------------------------------------------- requests
\* Requests handled at the same time, and requests received in a run.
MaxInFlight == 2
MaxStarts == 3
\* Repositories a listing returns.
MaxRepos == 2

Slots == 1..MaxInFlight

NoUser == "anonymous"
NoProfile == ""
NoOwner == ""
Accounts == {"alice", "bob"}
\* profiles.github_username of an identity, when the profile row has one
AccountOf(u) == IF u = "u1" THEN "alice" ELSE "bob"

RepoNames == {"blog", "tools"}

RateLimitedKinds == {"list-pages-sites", "get-pages-info", "enable-github-pages"}

\* An upstream answer: its HTTP status and whether its body parses as JSON;
\* status 0 stands for a fetch that rejects (network error).
FailStatuses == {401, 403, 404, 409, 422, 500}
Outcomes ==
    {[status |-> 0, parsable |-> FALSE],
     [status |-> 200, parsable |-> TRUE],
     [status |-> 200, parsable |-> FALSE]}
    \cup {[status |-> s, parsable |-> TRUE] : s \in FailStatuses}
NoOutcome == [status |-> -1, parsable |-> FALSE]

\* `response.ok`
IsOk(o) == o.status >= 200 /\ o.status <= 299

\* Listings: sequences of distinct repositories, at most MaxRepos long.
RECURSIVE SeqsUpTo(_, _)
SeqsUpTo(S, n) ==
    IF n = 0 THEN {<<>>}
    ELSE LET shorter == SeqsUpTo(S, n - 1)
         IN  shorter \cup {Append(q, x) : q \in {p \in shorter : Len(p) = n - 1},
                                          x \in S}
Range(q) == {q[i] : i \in 1..Len(q)}
Listings == {q \in SeqsUpTo(RepoNames, MaxRepos) : Cardinality(Range(q)) = Len(q)}

\* `per_page=100` with no request for a further page: the listing call
\* returns at most one page of the account's repositories.  The page size is
\* scaled down so that a listing of all of RepoNames fills one page exactly.
PerPage == Cardinality(RepoNames)

\* The repositories an account may own, in the order upstream lists them:
\* any of Listings, or one more than a page holds.
MoreNames == <<"blog", "tools", "secret", "docs", "wiki", "notes">>
Overflow == SubSeq(MoreNames, 1, PerPage + 1)
Owned == Listings \cup {Overflow}

firstPage(owned) ==
    IF Len(owned) <= PerPage THEN owned ELSE SubSeq(owned, 1, PerPage)

NoRl == [allowed |-> TRUE, remaining |-> 0, resetAt |-> 0]
NoHeaders == [limit |-> "", remaining |-> "", reset |-> ""]

IdleReq ==
    [pc       |-> "idle",
     kind     |-> "",
     body     |-> "",
     owner    |-> NoOwner,
     user     |-> NoUser,       \* identity the session resolved to
     account  |-> NoProfile,    \* github_username from the profile lookup
     rlCalls  |-> 0,            \* checkRateLimit calls made by this request
     rl       |-> NoRl,         \* rateLimitResult
     lookups  |-> 0,            \* profile lookups issued
     upstream |-> <<>>,         \* upstream (GitHub) calls issued
     answer   |-> NoOutcome,    \* answer to the listing / single upstream call
     raw      |-> "",           \* text of the failed answer or of the exception
     owned    |-> <<>>,         \* the account's repositories upstream
     repos    |-> <<>>,         \* the listing
     outcomes |-> <<>>,         \* probe answers, in probe order
     sites    |-> <<>>,         \* livePagesSites
     logged   |-> <<>>,         \* console.error entries of the probe loop
     status   |-> 0,            \* response status
     error    |-> "",           \* response body's error
     payload  |-> "",           \* response body's shape when not an error
     headers  |-> NoHeaders]

Call(op, owner, repo) == [op |-> op, owner |-> owner, repo |-> repo]

\* A response: `new Response(JSON.stringify(...), {status, headers})`.
Responded(q, status, error, payload) ==
    [q EXCEPT !.pc = "done", !.status = status, !.error = error,
              !.payload = payload]

\* ------------------------------------------------- handler building blocks
Others == <<now, maxRequests, started, wizard, dialog>>

\* A free slot takes the next request (lowest free slot first).
CanReceive(r) ==
    /\ req[r].pc = "idle"
    /\ started < MaxStarts
    /\ \A s \in Slots : s < r => req[s].pc # "idle"

\* Texts that only the upstream service or a thrown exception chooses.
RawTexts == {"raw-a", "raw-b"}

\* The bodies a handler may be sent: shape and, when valid, the owner field.
Bodies(owners) ==
    {[shape |-> "valid", owner |-> o, raw |-> ""] : o \in owners}
    \cup {[shape |-> s, owner |-> NoOwner, raw |-> t] :
             s \in {"invalid", "unparsable"}, t \in RawTexts}

NewReq(kind, b) ==
    [IdleReq EXCEPT !.kind = kind, !.body = b.shape, !.owner = b.owner,
                    !.raw = b.raw]

\* An upstream call has answered with o; t is the text of its body when it
\* is an error body, or of the exception when the fetch or the parse throws.
answered(q, o, t) ==
    [q EXCEPT !.answer = o, !.raw = IF IsOk(o) /\ o.parsable THEN "" ELSE t]

\* `schema.safeParse(body)` and the 400 answer; a body that is not JSON makes
\* `req.json()` throw into the outer catch.
safeParsed(q) ==
    CASE q.body = "unparsable" -> Responded(q, 500, sanitizeGeneralError, "")
      [] q.body = "invalid"    -> Responded(q, 400, "Invalid input", "details")
      [] OTHER                 -> [q EXCEPT !.pc = "auth"]

rateLimitGateOpen(q) == [q EXCEPT !.pc = "profile", !.lookups = @ + 1]

\* `if (!rateLimitResult.allowed) return 429 ...`, else the profile lookup
rateLimitGate(q) ==
    IF ~q.rl.allowed
    THEN [Responded(q, 429, "Rate limit exceeded. Please try again later.", "")
            EXCEPT !.headers = getRateLimitHeaders(q.rl, DEFAULT_RATE_LIMIT)]
    ELSE [q EXCEPT !.pc = "profile", !.lookups = @ + 1]

\* `if (authError || !user) return 401 { error: 'Unauthorized' }`
unauthorizedAfterLookup(q) ==
    [Responded(q, 401, "Unauthorized", "") EXCEPT !.lookups = @ + 1]

unauthorized(q) == Responded(q, 401, "Unauthorized", "")

\* `supabase.auth.getUser()` has answered with identity u (or none): the 401
\* answer, or checkRateLimit(user.id) and what follows it.
RateLimitedAuth(r, kind) ==
    /\ req[r].pc = "auth" /\ req[r].kind = kind
    /\ \E u \in Users \cup {NoUser} :
         LET q == [req[r] EXCEPT !.user = u] IN
         IF u = NoUser
         THEN /\ req' = [req EXCEPT ![r] = unauthorized(q)]
              /\ UNCHANGED <<requestCounts, rlLog>>
         ELSE /\ ApplyRateLimitCall(u)
              /\ req' = [req EXCEPT ![r] =
                    rateLimitGate([q EXCEPT !.rlCalls = @ + 1,
                                            !.rl = RateLimitCall(u).result])]
    /\ UNCHANGED Others

\* The answers the profile lookup can give for identity u.
Profiles(u) == {AccountOf(u), NoProfile}

\* `owner !== profile.github_username`
ownerMismatchNever(owner, account) == FALSE

ownerMismatch(owner, account) == owner # account

\* Profile answer for the handlers that name an owner: 403 without a
\* github_username, 403 for another account's owner, else the upstream call.
ownerGate(q, p, op, missingStatus, missingError, mismatchError) ==
    IF p = NoProfile THEN Responded(q, missingStatus, missingError, "")
    ELSE IF ownerMismatch(q.owner, p)
    THEN Responded([q EXCEPT !.account = p], 403, mismatchError, "")
    ELSE [q EXCEPT !.account = p, !.pc = "fetch",
                   !.upstream = Append(@, Call(op, q.owner, ""))]

\* `sanitizeGitHubError(response.status, rawError)` turned into the answer
sanitizedAnswerRaw(q, o) == Responded(q, o.status, "rawError", "")

sanitizedAnswer(q, o) ==
    Responded(q, sanitizeGitHubError(o.status).status,
              sanitizeGitHubError(o.status).message, "")

internalError(q) == Responded(q, 500, sanitizeGeneralError, "")

\* ------------------------------------------------------ list-pages-sites
ListReceive(r) ==
    /\ CanReceive(r)
    /\ \E b \in Bodies({NoOwner}) :
         req' = [req EXCEPT ![r] = safeParsed(NewReq("list-pages-sites", b))]
    /\ started' = started + 1
    /\ UNCHANGED <<now, maxRequests, requestCounts, rlLog, Browser>>

ListAuth(r) == RateLimitedAuth(r, "list-pages-sites")

ListProfile(r) ==
    /\ req[r].pc = "profile" /\ req[r].kind = "list-pages-sites"
    /\ \E p \in Profiles(req[r].user) :
         req' = [req EXCEPT ![r] =
            IF p = NoProfile
            THEN Responded(@, 403, "GitHub profile not found", "")
            ELSE [@ EXCEPT !.account = p, !.pc = "list",
                           !.upstream = Append(@, Call("listRepos", p, ""))]]
    /\ UNCHANGED <<requestCounts, rlLog>>
    /\ UNCHANGED Others

\* The probe loop after the answers so far: the next fetch, or the 200 answer.
probeNext(q) ==
    IF Len(q.outcomes) = Len(q.repos)
    THEN Responded(q, 200, "", "sites")
    ELSE [q EXCEPT !.pc = "probe",
                   !.upstream = Append(@, Call("getPages", q.account,
                                               q.repos[Len(q.outcomes) + 1]))]

\* Answer to the listing fetch.
listAnswer(q, o, repos) ==
    IF o.status = 0 THEN internalError(q)
    ELSE IF ~IsOk(o) THEN sanitizedAnswer(q, o)
    ELSE IF ~o.parsable THEN internalError(q)
    ELSE probeNext([q EXCEPT !.repos = repos])

\* The upstream service answers the listing call of an account that owns the
\* repositories `owned`.
listed(q, o, owned) ==
    IF IsOk(o) /\ o.parsable
    THEN listAnswer([q EXCEPT !.owned = owned], o, firstPage(owned))
    ELSE listAnswer(q, o, <<>>)

ListRepos(r) ==
    /\ req[r].pc = "list"
    /\ \E o \in Outcomes, owned \in Owned, t \in RawTexts :
         req' = [req EXCEPT ![r] = listed(answered(@, o, t), o, owned)]
    /\ UNCHANGED <<requestCounts, rlLog>>
    /\ UNCHANGED Others

\* The sites array after the loop body ran on the answer o for `repo`.
probeSitesPrepend(sites, account, repo, o) ==
    IF o.status = 404 THEN sites
    ELSE IF IsOk(o) /\ o.parsable
    THEN <<[repository |-> repo, owner |-> account]>> \o sites
    ELSE sites

probeSites(sites, account, repo, o) ==
    IF o.status = 404 THEN sites
    ELSE IF IsOk(o) /\ o.parsable
    THEN Append(sites, [repository |-> repo, owner |-> account])
    ELSE sites

\* `catch (error) { console.error(...) }`: a rejected fetch or a body that
\* does not parse
probeThrows(o) == o.status = 0 \/ (IsOk(o) /\ ~o.parsable)

probeLogged(logged, repo, o) ==
    IF probeThrows(o) THEN Append(logged, repo) ELSE logged

\* The loop body on the answer o to the fetch for the current repository.
probeStepUncaught(q, o) ==
    IF probeThrows(o) THEN internalError([q EXCEPT !.outcomes = Append(@, o)])
    ELSE probeNext([q EXCEPT
            !.sites    = probeSites(@, q.account, q.repos[Len(q.outcomes) + 1], o),
            !.outcomes = Append(@, o)])

probeStep(q, o) ==
    probeNext([q EXCEPT
        !.sites    = probeSites(@, q.account, q.repos[Len(q.outcomes) + 1], o),
        !.logged   = probeLogged(@, q.repos[Len(q.outcomes) + 1], o),
        !.outcomes = Append(@, o)])

ListProbe(r) ==
    /\ req[r].pc = "probe"
    /\ \E o \in Outcomes : req' = [req EXCEPT ![r] = probeStep(@, o)]
    /\ UNCHANGED <<requestCounts, rlLog>>
    /\ UNCHANGED Others

\* -------------------------------------------------------- get-pages-info
InfoReceive(r) ==
    /\ CanReceive(r)
    /\ \E b \in Bodies(Accounts) :
         req' = [req EXCEPT ![r] = safeParsed(NewReq("get-pages-info", b))]
    /\ started' = started + 1
    /\ UNCHANGED <<now, maxRequests, requestCounts, rlLog, Browser>>

InfoAuth(r) == RateLimitedAuth(r, "get-pages-info")

InfoProfile(r) ==
    /\ req[r].pc = "profile" /\ req[r].kind = "get-pages-info"
    /\ \E p \in Profiles(req[r].user) :
         req' = [req EXCEPT ![r] =
            ownerGate(@, p, "getPages", 403, "GitHub profile not found",
                      "Unauthorized: can only access your own repositories")]
    /\ UNCHANGED <<requestCounts, rlLog>>
    /\ UNCHANGED Others

\* Answer to the Pages GET.
infoAnswerNotFoundIsError(q, o) ==
    IF o.status = 0 THEN internalError(q)
    ELSE IF ~IsOk(o) THEN sanitizedAnswer(q, o)
    ELSE IF ~o.parsable THEN internalError(q)
    ELSE Responded(q, 200, "", "enabled:true")

infoAnswer(q, o) ==
    IF o.status = 0 THEN internalError(q)
    ELSE IF o.status = 404 THEN Responded(q, 200, "", "enabled:false")
    ELSE IF ~IsOk(o) THEN sanitizedAnswer(q, o)
    ELSE IF ~o.parsable THEN internalError(q)
    ELSE Responded(q, 200, "", "enabled:true")

InfoFetch(r) ==
    /\ req[r].pc = "fetch" /\ req[r].kind = "get-pages-info"
    /\ \E o \in Outcomes, t \in RawTexts :
         req' = [req EXCEPT ![r] = infoAnswer(answered(@, o, t), o)]
    /\ UNCHANGED <<requestCounts, rlLog>>
    /\ UNCHANGED Others

\* --------------------------------------------------- enable-github-pages
EnableReceive(r) ==
    /\ CanReceive(r)
    /\ \E b \in Bodies(Accounts) :
         req' = [req EXCEPT ![r] = safeParsed(NewReq("enable-github-pages", b))]
    /\ started' = started + 1
    /\ UNCHANGED <<now, maxRequests, requestCounts, rlLog, Browser>>

EnableAuth(r) == RateLimitedAuth(r, "enable-github-pages")

EnableProfile(r) ==
    /\ req[r].pc = "profile" /\ req[r].kind = "enable-github-pages"
    /\ \E p \in Profiles(req[r].user) :
         req' = [req EXCEPT ![r] =
            ownerGate(@, p, "postPages", 403, "GitHub profile not found",
                      "Unauthorized: can only access your own repositories")]
    /\ UNCHANGED <<requestCounts, rlLog>>
    /\ UNCHANGED Others

\* Answer to the Pages POST (also used for the rename POST).
writeAnswer(q, o) ==
    IF o.status = 0 THEN internalError(q)
    ELSE IF ~IsOk(o) THEN sanitizedAnswer(q, o)
    ELSE IF ~o.parsable THEN internalError(q)
    ELSE Responded(q, 200, "", "success")

EnableFetch(r) ==
    /\ req[r].pc = "fetch" /\ req[r].kind = "enable-github-pages"
    /\ \E o \in Outcomes, t \in RawTexts :
         req' = [req EXCEPT ![r] = writeAnswer(answered(@, o, t), o)]
    /\ UNCHANGED <<requestCounts, rlLog>>
    /\ UNCHANGED Others

\* --------------------------------------------------------- rename-branch
\* `renameBranchSchema.parse(body)` throws on a schema violation.
RenameReceive(r) ==
    /\ CanReceive(r)
    /\ \E b \in Bodies(Accounts) :
         LET q == NewReq("rename-branch", b) IN
         req' = [req EXCEPT ![r] =
            IF q.body = "valid" THEN [q EXCEPT !.pc = "auth"]
            ELSE internalError(q)]
    /\ started' = started + 1
    /\ UNCHANGED <<now, maxRequests, requestCounts, rlLog, Browser>>

RenameAuth(r) ==
    /\ req[r].pc = "auth" /\ req[r].kind = "rename-branch"
    /\ \E u \in Users \cup {NoUser} :
         req' = [req EXCEPT ![r] =
            IF u = NoUser THEN unauthorized(@)
            ELSE [@ EXCEPT !.user = u, !.pc = "profile", !.lookups = @ + 1]]
    /\ UNCHANGED <<requestCounts, rlLog>>
    /\ UNCHANGED Others

RenameProfile(r) ==
    /\ req[r].pc = "profile" /\ req[r].kind = "rename-branch"
    /\ \E p \in Profiles(req[r].user) :
         req' = [req EXCEPT ![r] =
            ownerGate(@, p, "renameBranch", 401, "GitHub username not found",
                      "You can only rename branches in your own repositories")]
    /\ UNCHANGED <<requestCounts, rlLog>>
    /\ UNCHANGED Others

RenameFetch(r) ==
    /\ req[r].pc = "fetch" /\ req[r].kind = "rename-branch"
    /\ \E o \in Outcomes, t \in RawTexts :
         req' = [req EXCEPT ![r] = writeAnswer(answered(@, o, t), o)]
    /\ UNCHANGED <<requestCounts, rlLog>>
    /\ UNCHANGED Others

\* --------------------------------------------------------- create-branch
\* The outer catch answers 500 with the exception's own message.
rawError(q) == Responded(q, 500, q.raw, "")

CreateReceive(r) ==
    /\ CanReceive(r)
    /\ \E b \in Bodies(Accounts) :
         LET q == NewReq("create-branch", b) IN
         req' = [req EXCEPT ![r] =
            IF q.body = "unparsable" THEN rawError(q)
            ELSE [q EXCEPT !.pc = "token"]]
    /\ started' = started + 1
    /\ UNCHANGED <<now, maxRequests, requestCounts, rlLog, Browser>>

\* `getGitHubToken(req, provider_token)` has answered: a profile for identity
\* u, or null.
CreateToken(r) ==
    /\ req[r].pc = "token"
    /\ \E u \in Users \cup {NoUser} :
         LET q == [req[r] EXCEPT !.user = u] IN
         req' = [req EXCEPT ![r] =
            IF u = NoUser
            THEN Responded(q, 401, "GitHub authentication required", "")
            ELSE IF q.body = "invalid"
            THEN Responded(q, 400, "Missing required parameters", "")
            ELSE [q EXCEPT !.pc = "ref",
                           !.upstream = Append(@, Call("getRef", q.owner, ""))]]
    /\ UNCHANGED <<requestCounts, rlLog>>
    /\ UNCHANGED Others

CreateRef(r) ==
    /\ req[r].pc = "ref"
    /\ \E o \in Outcomes, t \in RawTexts :
         LET q == answered(req[r], o, t) IN
         req' = [req EXCEPT ![r] =
            IF o.status = 0 THEN rawError(q)
            ELSE IF ~IsOk(o) THEN Responded(q, 404, "Source branch not found", "")
            ELSE IF ~o.parsable THEN rawError(q)
            ELSE [q EXCEPT !.pc = "post",
                           !.upstream = Append(@, Call("postRef", q.owner, ""))]]
    /\ UNCHANGED <<requestCounts, rlLog>>
    /\ UNCHANGED Others

CreatePost(r) ==
    /\ req[r].pc = "post"
    /\ \E o \in Outcomes, t \in RawTexts :
         LET q == answered(req[r], o, t) IN
         req' = [req EXCEPT ![r] =
            IF o.status = 0 THEN rawError(q)
            ELSE IF ~IsOk(o)
            THEN Responded(q, 400, "Failed to create branch. It may already exist.", "")
            ELSE Responded(q, 200, "", "success")]
    /\ UNCHANGED <<requestCounts, rlLog>>
    /\ UNCHANGED Others

\* ------------------------------------------------- GitHubPages (wizard)
\* Status checks that may be awaiting their answer at the same time.
MaxChecks == 2

Branches == {"main", "gh-pages"}

\* `data.url` of get-pages-info / enable-github-pages for a repository
UrlOf(repo) == <<"github.io", repo>>
NoUrl == <<>>

\* The body of an enable-github-pages call; branchFor is the repository that
\* was selected when selectedBranch was chosen.
NoEnable == [repo |-> "", branch |-> "", branchFor |-> ""]

InitialWizard ==
    [username         |-> "",
     activeView       |-> "deploy",
     currentStep      |-> 0,
     selectedRepo     |-> "",
     selectedBranch   |-> "",
     branchFor        |-> "",        \* selectedRepo when the branch was chosen
     pagesUrl         |-> NoUrl,
     isEnabled        |-> FALSE,
     shownFor         |-> "",        \* repository whose answer was written last
     isLoading        |-> FALSE,
     isCheckingStatus |-> FALSE,
     checks           |-> <<>>,      \* get-pages-info calls awaiting an answer
     sent             |-> NoEnable]  \* the latest enable-github-pages call

\* checkPagesStatus() up to its await, with the selectedRepo and username of
\* the render that ran the effect
checkPagesStatus(w) ==
    IF w.selectedRepo = "" \/ w.username = "" THEN w
    ELSE [w EXCEPT !.isCheckingStatus = TRUE,
                   !.checks = Append(@, w.selectedRepo)]

\* setSelectedRepo(repo) and the effect on [selectedRepo]
selectRepo(w, repo) ==
    IF repo = w.selectedRepo THEN w
    ELSE checkPagesStatus([w EXCEPT !.selectedRepo = repo])

\* checkPagesStatus() after its await, for the call made for `repo`
checkAnswered(w, repo, answer) ==
    LET shown ==
            CASE answer = "enabled" ->
                    [w EXCEPT !.isEnabled = TRUE, !.pagesUrl = UrlOf(repo)]
              [] answer = "disabled" ->
                    [w EXCEPT !.isEnabled = FALSE, !.pagesUrl = NoUrl]
              [] OTHER -> [w EXCEPT !.isEnabled = FALSE]
    IN  [shown EXCEPT !.shownFor = repo, !.isCheckingStatus = FALSE]

Remove(q, i) == SubSeq(q, 1, i - 1) \o SubSeq(q, i + 1, Len(q))

\* fetchProfile has answered.
WizardProfile ==
    /\ wizard.username = ""
    /\ wizard' = [wizard EXCEPT !.username = "alice"]
    /\ UNCHANGED <<Server, dialog>>

\* The repository Select of step 1.
WizardSelectRepo ==
    /\ wizard.activeView = "deploy" /\ wizard.currentStep = 0
    /\ Len(wizard.checks) < MaxChecks
    /\ \E repo \in RepoNames :
         /\ repo # wizard.selectedRepo
         /\ wizard' = selectRepo(wizard, repo)
    /\ UNCHANGED <<Server, dialog>>

\* The branch Select of step 2.
WizardSelectBranch ==
    /\ wizard.activeView = "deploy" /\ wizard.currentStep = 1
    /\ wizard.selectedRepo # ""
    /\ \E b \in Branches :
         /\ b # wizard.selectedBranch \/ wizard.branchFor # wizard.selectedRepo
         /\ wizard' = [wizard EXCEPT !.selectedBranch = b,
                                     !.branchFor = wizard.selectedRepo]
    /\ UNCHANGED <<Server, dialog>>

handleNext(w) ==
    IF w.currentStep = 0 /\ w.selectedRepo = "" THEN w
    ELSE IF w.currentStep = 1 /\ w.selectedBranch = "" THEN w
    ELSE [w EXCEPT !.currentStep = IF @ + 1 <= 2 THEN @ + 1 ELSE 2]

WizardNext ==
    /\ wizard.activeView = "deploy"
    /\ wizard.currentStep < 2 /\ ~wizard.isLoading
    /\ wizard' = handleNext(wizard)
    /\ wizard' # wizard
    /\ UNCHANGED <<Server, dialog>>

handleBack(w) == [w EXCEPT !.currentStep = IF @ - 1 >= 0 THEN @ - 1 ELSE 0]

WizardBack ==
    /\ wizard.activeView = "deploy"
    /\ wizard.currentStep # 0 /\ ~wizard.isLoading
    /\ wizard' = handleBack(wizard)
    /\ UNCHANGED <<Server, dialog>>

\* The tabs.
WizardView ==
    /\ \E v \in {"deploy", "live"} :
         /\ v # wizard.activeView
         /\ wizard' = [wizard EXCEPT !.activeView = v]
    /\ UNCHANGED <<Server, dialog>>

\* Configure on a site of the live dashboard.
handleConfigureRepo(w, repoName) ==
    [selectRepo(w, repoName) EXCEPT !.activeView = "deploy", !.currentStep = 0]

WizardConfigure ==
    /\ wizard.activeView = "live"
    /\ Len(wizard.checks) < MaxChecks
    /\ \E repo \in RepoNames : wizard' = handleConfigureRepo(wizard, repo)
    /\ UNCHANGED <<Server, dialog>>

\* handleEnablePages() up to its await
handleEnablePages(w) ==
    IF w.selectedRepo = "" \/ w.selectedBranch = "" \/ w.username = "" THEN w
    ELSE [w EXCEPT !.isLoading = TRUE,
                   !.sent = [repo      |-> w.selectedRepo,
                             branch    |-> w.selectedBranch,
                             branchFor |-> w.branchFor]]

WizardEnable ==
    /\ wizard.activeView = "deploy" /\ wizard.currentStep = 2
    /\ ~(wizard.isEnabled /\ wizard.pagesUrl # NoUrl)
    /\ ~wizard.isLoading
    /\ wizard' = handleEnablePages(wizard)
    /\ wizard' # wizard
    /\ UNCHANGED <<Server, dialog>>

\* handleEnablePages() after its await
enableAnswered(w, answer) ==
    IF answer = "success"
    THEN [w EXCEPT !.pagesUrl = UrlOf(w.sent.repo), !.isEnabled = TRUE,
                   !.shownFor = w.sent.repo, !.isLoading = FALSE]
    ELSE [w EXCEPT !.isLoading = FALSE]

WizardEnableAnswer ==
    /\ wizard.isLoading
    /\ \E answer \in {"success", "error"} :
         wizard' = enableAnswered(wizard, answer)
    /\ UNCHANGED <<Server, dialog>>

\* One of the pending status checks is answered, in any order.
WizardCheckAnswer ==
    /\ \E i \in 1..Len(wizard.checks), answer \in {"enabled", "disabled", "error"} :
         wizard' = checkAnswered([wizard EXCEPT !.checks = Remove(@, i)],
                                 wizard.checks[i], answer)
    /\ UNCHANGED <<Server, dialog>>

NextWizard ==
    \/ WizardProfile
    \/ WizardSelectRepo
    \/ WizardSelectBranch
    \/ WizardNext
    \/ WizardBack
    \/ WizardView
    \/ WizardConfigure
    \/ WizardEnable
    \/ WizardEnableAnswer
    \/ WizardCheckAnswer

\* ------------------------------------------- RepositorySettingsDialog
\* The repository the dialog is opened for, its branches, and what the user
\* may type into a confirmation field.
DialogRepo == "blog"
DefaultBranch == "main"
DialogBranches == {"main", "gh-pages", "dev"}
Typed == {"", "blog", "gh-pages", "dev"}

InitialDialog ==
    [open                   |-> FALSE,
     isDeleting             |-> FALSE,
     showDangerZone         |-> FALSE,
     typedRepoName          |-> "",    \* text of the repository confirmation input
     showDeleteBranch       |-> FALSE,
     selectedBranchToDelete |-> "",
     isDeletingBranch       |-> FALSE,
     confirmBranchName      |-> "",
     invoked                |-> {}]    \* supabase.functions.invoke calls made

Invocation(fn, target, typed) == [fn |-> fn, target |-> target, typed |-> typed]

\* The parent opens the dialog: the effect on [repo, open] resets the branch
\* forms.
DialogOpen ==
    /\ ~dialog.open
    /\ dialog' = [dialog EXCEPT !.open = TRUE,
                                !.showDeleteBranch = FALSE,
                                !.selectedBranchToDelete = "",
                                !.confirmBranchName = ""]
    /\ UNCHANGED <<Server, wizard>>

\* onOpenChange(false): the dialog's content, with its uncontrolled input,
\* leaves the page.
DialogClose ==
    /\ dialog.open
    /\ dialog' = [dialog EXCEPT !.open = FALSE, !.typedRepoName = ""]
    /\ UNCHANGED <<Server, wizard>>

\* "Delete Repository": setShowDangerZone(true)
DialogShowDangerZone ==
    /\ dialog.open /\ ~dialog.showDangerZone
    /\ dialog' = [dialog EXCEPT !.showDangerZone = TRUE]
    /\ UNCHANGED <<Server, wizard>>

\* The repository confirmation input: onChange only marks the DOM element
\* (dataset.confirmed), no state is set.
DialogTypeRepoName ==
    /\ dialog.open /\ dialog.showDangerZone
    /\ \E text \in Typed :
         /\ text # dialog.typedRepoName
         /\ dialog' = [dialog EXCEPT !.typedRepoName = text]
    /\ UNCHANGED <<Server, wizard>>

\* handleDeleteRepo() up to the invoke
handleDeleteRepo(d) ==
    [d EXCEPT !.isDeleting = TRUE,
              !.invoked = @ \cup {Invocation("delete-repo", DialogRepo,
                                             d.typedRepoName)}]

\* "I understand, delete": disabled only while isDeleting
DialogDeleteRepo ==
    /\ dialog.open /\ dialog.showDangerZone /\ ~dialog.isDeleting
    /\ dialog' = handleDeleteRepo(dialog)
    /\ UNCHANGED <<Server, wizard>>

\* handleDeleteRepo() after the invoke: success closes the dialog
DialogDeleteRepoAnswer ==
    /\ dialog.isDeleting
    /\ \E ok \in BOOLEAN :
         dialog' = IF ok
                   THEN [dialog EXCEPT !.isDeleting = FALSE, !.open = FALSE,
                                       !.typedRepoName = ""]
                   ELSE [dialog EXCEPT !.isDeleting = FALSE]
    /\ UNCHANGED <<Server, wizard>>

\* "Delete Branch": setShowDeleteBranch(true)
DialogShowDeleteBranch ==
    /\ dialog.open /\ ~dialog.showDeleteBranch
    /\ dialog' = [dialog EXCEPT !.showDeleteBranch = TRUE]
    /\ UNCHANGED <<Server, wizard>>

\* The branch Select: every branch but the default one
DialogSelectBranch ==
    /\ dialog.open /\ dialog.showDeleteBranch
    /\ \E b \in DialogBranches \ {DefaultBranch} :
         /\ b # dialog.selectedBranchToDelete
         /\ dialog' = [dialog EXCEPT !.selectedBranchToDelete = b,
                                     !.confirmBranchName = ""]
    /\ UNCHANGED <<Server, wizard>>

\* The branch confirmation input: setConfirmBranchName(e.target.value)
DialogTypeBranchName ==
    /\ dialog.open /\ dialog.showDeleteBranch
    /\ dialog.selectedBranchToDelete # ""
    /\ \E text \in Typed :
         /\ text # dialog.confirmBranchName
         /\ dialog' = [dialog EXCEPT !.confirmBranchName = text]
    /\ UNCHANGED <<Server, wizard>>

\* handleDeleteBranch() up to the invoke
handleDeleteBranch(d) ==
    IF d.selectedBranchToDelete = ""
       \/ d.confirmBranchName # d.selectedBranchToDelete
    THEN d
    ELSE [d EXCEPT !.isDeletingBranch = TRUE,
                   !.invoked = @ \cup {Invocation("delete-branch",
                                                  d.selectedBranchToDelete,
                                                  d.confirmBranchName)}]

\* The branch "Delete Branch" button: disabled unless the confirmation
\* equals the selected branch
DialogDeleteBranch ==
    /\ dialog.open /\ dialog.showDeleteBranch
    /\ dialog.selectedBranchToDelete # ""
    /\ ~(dialog.confirmBranchName # dialog.selectedBranchToDelete
         \/ dialog.isDeletingBranch)
    /\ dialog' = handleDeleteBranch(dialog)
    /\ UNCHANGED <<Server, wizard>>

\* handleDeleteBranch() after the invoke: success resets the form
DialogDeleteBranchAnswer ==
    /\ dialog.isDeletingBranch
    /\ \E ok \in BOOLEAN :
         dialog' = IF ok
                   THEN [dialog EXCEPT !.isDeletingBranch = FALSE,
                                       !.showDeleteBranch = FALSE,
                                       !.selectedBranchToDelete = "",
                                       !.confirmBranchName = ""]
                   ELSE [dialog EXCEPT !.isDeletingBranch = FALSE]
    /\ UNCHANGED <<Server, wizard>>

NextDialog ==
    \/ DialogOpen
    \/ DialogClose
    \/ DialogShowDangerZone
    \/ DialogTypeRepoName
    \/ DialogDeleteRepo
    \/ DialogDeleteRepoAnswer
    \/ DialogShowDeleteBranch
    \/ DialogSelectBranch
    \/ DialogTypeBranchName
    \/ DialogDeleteBranch
    \/ DialogDeleteBranchAnswer

\* ------------------------------------------------------- specifications
\* The response has been sent; the slot is free again.
Retire(r) ==
    /\ req[r].pc = "done"
    /\ req' = [req EXCEPT ![r] = IdleReq]
    /\ UNCHANGED <<requestCounts, rlLog>>
    /\ UNCHANGED Others

\* Time passes.
Tick ==
    /\ now < Epoch0 + MaxTicks * TickMs
    /\ now' = now + TickMs
    /\ UNCHANGED <<maxRequests, requestCounts, rlLog, req, started, Browser>>

Init ==
    /\ now = Epoch0
    /\ maxRequests \in 1..MaxN
    /\ requestCounts = <<>>
    /\ rlLog = [u \in Users |-> <<>>]
    /\ req = [r \in Slots |-> IdleReq]
    /\ started = 0
    /\ wizard = InitialWizard
    /\ dialog = InitialDialog

\* One request at a time, through any of the five handlers.
Handle(r) ==
    \/ ListReceive(r) \/ ListAuth(r) \/ ListProfile(r) \/ ListRepos(r)
    \/ ListProbe(r)
    \/ InfoReceive(r) \/ InfoAuth(r) \/ InfoProfile(r) \/ InfoFetch(r)
    \/ EnableReceive(r) \/ EnableAuth(r) \/ EnableProfile(r) \/ EnableFetch(r)
    \/ RenameReceive(r) \/ RenameAuth(r) \/ RenameProfile(r) \/ RenameFetch(r)
    \/ CreateReceive(r) \/ CreateToken(r) \/ CreateRef(r) \/ CreatePost(r)
    \/ Retire(r)

Next ==
    \/ Handle(1)
    \/ Tick

Spec == Init /\ [][Next]_vars

\* The exported limiter called directly, at any times.
Check(u) ==
    /\ Len(rlLog[u]) < MaxCalls
    /\ ApplyRateLimitCall(u)
    /\ UNCHANGED <<now, maxRequests, req, started, Browser>>

NextRL ==
    \/ \E u \in Users : Check(u)
    \/ Tick

SpecRL == Init /\ [][NextRL]_vars

\* The exported limiter and its exported sweep called directly, at any times
\* and in any order.
\* (A sweep that finds nothing expired changes no variable.)
Cleanup ==
    /\ requestCounts' = cleanupRateLimitStore(requestCounts, now)
    /\ requestCounts' # requestCounts
    /\ UNCHANGED <<now, maxRequests, rlLog, req, started, Browser>>

NextSweep ==
    \/ \E u \in Users : Check(u)
    \/ Cleanup
    \/ Tick

SpecSweep == Init /\ [][NextSweep]_vars

\* Requests handled at the same time by the rate-limited single-repository
\* handlers: every slot runs one, suspended at its awaits while the others
\* run.  A finished request leaves its slot before another handler resumes
\* (finished requests touch no shared state, so this removes no outcome).
NoneDone == \A s \in Slots : req[s].pc # "done"

NextConc ==
    \/ \E r \in Slots : Retire(r)
    \/ \E r \in Slots : NoneDone /\ InfoReceive(r)
    \/ \E r \in Slots : NoneDone /\ InfoAuth(r)
    \/ \E r \in Slots : NoneDone /\ InfoProfile(r)
    \/ \E r \in Slots : NoneDone /\ InfoFetch(r)
    \/ \E r \in Slots : NoneDone /\ EnableReceive(r)
    \/ \E r \in Slots : NoneDone /\ EnableAuth(r)
    \/ \E r \in Slots : NoneDone /\ EnableProfile(r)
    \/ \E r \in Slots : NoneDone /\ EnableFetch(r)

SpecConc == Init /\ [][NextConc]_vars

\* list-pages-sites alone, with an upstream service that may leave a fetch
\* without any answer.  `await fetch(...)` is given no AbortSignal and the
\* handler sets no timer, so a fetch that never settles leaves the handler
\* suspended at its await.
ListNoAnswer(r) ==
    /\ req[r].kind = "list-pages-sites"
    /\ req[r].pc \in {"list", "probe"}
    /\ req' = [req EXCEPT ![r].pc = "waiting"]
    /\ UNCHANGED <<requestCounts, rlLog>>
    /\ UNCHANGED Others

ListStep(r) ==
    \/ ListAuth(r) \/ ListProfile(r) \/ ListRepos(r) \/ ListProbe(r)

NextLive ==
    \/ ListReceive(1)
    \/ ListAuth(1)
    \/ ListProfile(1)
    \/ ListRepos(1)
    \/ ListProbe(1)
    \/ ListNoAnswer(1)
    \/ Retire(1)
    \/ Tick

\* Every await that is answered resumes the handler.
SpecLive == Init /\ [][NextLive]_vars /\ WF_vars(ListStep(1))

\* RepositorySettingsDialog alone.
SpecDialog == Init /\ [][NextDialog]_vars

\* The GitHubPages page alone.
SpecWizard == Init /\ [][NextWizard]_vars

\* ================================================================ claims
Min(a, b) == IF a <= b THEN a ELSE b

\* The fixed windows of an identity, from the times of its calls alone: the
\* first call opens a window, and a call opens a new one when it is made
\* WindowMs or more after the call that opened the current one.
RECURSIVE WindowOpener(_, _)
WindowOpener(log, i) ==
    IF i = 1 THEN 1
    ELSE LET s == WindowOpener(log, i - 1)
         IN  IF log[i].at >= log[s].at + WindowMs THEN i ELSE s

\* Call i is the k-th call of its window.
CallRank(log, i) == i - WindowOpener(log, i) + 1

\* The calls of the window the latest call falls in.
WindowCalls(log) ==
    {i \in 1..Len(log) : WindowOpener(log, i) = WindowOpener(log, Len(log))}

\* C1: the k-th call of an identity inside one window returns
\* allowed = (k <= N) and remaining = max(0, N - k).
C1_KthCallResult ==
    \A u \in Users : \A i \in 1..Len(rlLog[u]) :
        LET e == rlLog[u][i]
            k == CallRank(rlLog[u], i)
        IN  /\ e.result.allowed = (k <= e.N)
            /\ e.result.remaining = (IF k <= e.N THEN e.N - k ELSE 0)

\* Call N+1 of a window has been made, at a later time than the window's
\* first call: it was refused with nothing remaining.
C1_Witness ==
    \E u \in Users : \E i \in 1..Len(rlLog[u]) :
        /\ CallRank(rlLog[u], i) = rlLog[u][i].N + 1
        /\ rlLog[u][i].at > rlLog[u][WindowOpener(rlLog[u], i)].at
        /\ ~rlLog[u][i].result.allowed
        /\ rlLog[u][i].result.remaining = 0

\* C2: the first call made once the stored window's resetAt has passed
\* starts a fresh window, whatever the stored count: allowed, remaining
\* N - 1, resetAt = now + W, stored count 1.
C2_FreshWindow ==
    \A u \in Users : \A i \in 1..Len(rlLog[u]) :
        LET e == rlLog[u][i] IN
        (e.had /\ e.at >= e.prevReset) =>
            /\ e.result.allowed
            /\ e.result.remaining = e.N - 1
            /\ e.result.resetAt = e.at + WindowMs
            /\ e.stored = 1

\* A call found an expired window whose count was above N.
C2_Witness ==
    \E u \in Users : \E i \in 1..Len(rlLog[u]) :
        /\ rlLog[u][i].had
        /\ rlLog[u][i].at >= rlLog[u][i].prevReset
        /\ rlLog[u][i].prevCount > rlLog[u][i].N
        /\ rlLog[u][i].stored = 1

\* C3: after k calls inside one window the stored count is k, also when k
\* exceeds N: a refused call increments the count like an allowed one.
C3_RejectedCallsCount ==
    \A u \in Users :
        /\ \A i \in 1..Len(rlLog[u]) :
              rlLog[u][i].stored = CallRank(rlLog[u], i)
        /\ (rlLog[u] # <<>> /\ u \in DOMAIN requestCounts) =>
              requestCounts[u].count = CallRank(rlLog[u], Len(rlLog[u]))

\* A refused call that followed a refused call: the count went from above N
\* to one more.
C3_Witness ==
    \E u \in Users : \E i \in 1..Len(rlLog[u]) :
        /\ ~rlLog[u][i].result.allowed
        /\ rlLog[u][i].prevCount > rlLog[u][i].N
        /\ rlLog[u][i].stored = rlLog[u][i].prevCount + 1
        /\ requestCounts[u].count > maxRequests

\* C4: whatever the interleaving of the requests in flight, the m calls of
\* an identity inside one window leave a stored count of m, and exactly
\* min(m, N) of them were allowed.
C4_NoLostIncrement ==
    \A u \in Users :
        rlLog[u] # <<>> =>
            LET calls == WindowCalls(rlLog[u])
                m     == Cardinality(calls)
            IN  /\ u \in DOMAIN requestCounts
                /\ requestCounts[u].count = m
                /\ Cardinality({i \in calls : rlLog[u][i].result.allowed})
                     = Min(m, maxRequests)

\* A request of an identity is refused while another request of the same
\* identity, allowed earlier, is still suspended at one of its awaits.
C4_Witness ==
    \E r, s \in Slots :
        /\ r # s
        /\ req[r].pc \in {"profile", "fetch"}
        /\ req[r].rlCalls = 1 /\ req[r].rl.allowed
        /\ req[s].pc = "done" /\ req[s].status = 429
        /\ req[s].rlCalls = 1 /\ ~req[s].rl.allowed
        /\ req[r].user = req[s].user
        /\ requestCounts[req[r].user].count > maxRequests

OwnerCheckedKinds == {"get-pages-info", "enable-github-pages"}

\* C5: in get-pages-info and enable-github-pages, a request whose owner
\* differs from the account name resolved for its identity is answered 403,
\* and no upstream call is made for a request naming another account's owner.
C5_OwnerMismatchRejected ==
    \A r \in Slots :
        LET q == req[r] IN
        (q.kind \in OwnerCheckedKinds /\ q.body = "valid") =>
            /\ (q.account # NoProfile /\ q.owner # q.account) =>
                  (q.pc = "done" /\ q.status = 403 /\ q.upstream = <<>>)
            /\ (q.user # NoUser /\ q.owner # AccountOf(q.user)) =>
                  (q.upstream = <<>> /\ q.payload = "")

\* A request for another account's repository got past the rate limiter and
\* the profile lookup, and was answered.
C5_Witness ==
    \E r \in Slots :
        /\ req[r].kind \in OwnerCheckedKinds
        /\ req[r].pc = "done"
        /\ req[r].rl.allowed /\ req[r].rlCalls = 1
        /\ req[r].account = "alice" /\ req[r].owner = "bob"
        /\ req[r].status = 403

MutatingKinds == {"enable-github-pages", "rename-branch", "create-branch"}

\* C6: every mutating handler (enable-github-pages, rename-branch,
\* create-branch) issues upstream calls only for an owner equal to the
\* account name of the authenticated identity.
C6_WritesOwnAccountOnly ==
    \A r \in Slots :
        req[r].kind \in MutatingKinds =>
            \A i \in 1..Len(req[r].upstream) :
                /\ req[r].user # NoUser
                /\ req[r].upstream[i].owner = AccountOf(req[r].user)

\* Largest X-RateLimit-Reset value, in seconds.
MaxResetSeconds == (Epoch0 + MaxTicks * TickMs + WindowMs) \div 1000 + 1

\* C7: in list-pages-sites, get-pages-info and enable-github-pages a refused
\* checkRateLimit call is answered 429 with an error and the headers
\* Limit = N, Remaining = 0, Reset = ceil(resetAt / 1000), with no profile
\* lookup and no upstream call.
C7_RateLimited429 ==
    \A r \in Slots :
        LET q == req[r] IN
        (q.kind \in RateLimitedKinds /\ q.rlCalls > 0 /\ ~q.rl.allowed) =>
            /\ q.pc = "done"
            /\ q.status = 429
            /\ q.error # ""
            /\ q.headers.limit = ToString(maxRequests)
            /\ q.headers.remaining = "0"
            /\ \E s \in 0..MaxResetSeconds :
                  /\ q.headers.reset = ToString(s)
                  /\ s * 1000 >= q.rl.resetAt
                  /\ (s - 1) * 1000 < q.rl.resetAt
            /\ q.lookups = 0
            /\ q.upstream = <<>>

\* A request was refused by the limiter in a window that opened at a time
\* that is not a whole second.
C7_Witness ==
    \E r \in Slots :
        /\ req[r].kind \in RateLimitedKinds
        /\ req[r].rlCalls = 1 /\ ~req[r].rl.allowed
        /\ req[r].rl.resetAt % 1000 # 0
        /\ req[r].status = 429

\* Names of the repositories in a sites array.
SiteNames(sites) == {sites[i].repository : i \in 1..Len(sites)}

\* The upstream calls of one kind a request has issued.
CallsOf(q, op) == {i \in 1..Len(q.upstream) : q.upstream[i].op = op}

\* C8: an upstream 404 from the Pages endpoint is not an error outcome:
\* get-pages-info answers 200 {enabled: false}; list-pages-sites leaves the
\* repository out, goes on with the scan and answers 200.
C8_NotFoundIsNotAnError ==
    \A r \in Slots :
        LET q == req[r] IN
        /\ (q.kind = "get-pages-info" /\ q.answer.status = 404) =>
              /\ q.pc = "done" /\ q.status = 200
              /\ q.error = "" /\ q.payload = "enabled:false"
        /\ q.kind = "list-pages-sites" =>
              \A i \in 1..Len(q.outcomes) :
                  q.outcomes[i].status = 404 =>
                      /\ q.repos[i] \notin SiteNames(q.sites)
                      /\ q.pc \in {"probe", "done"}
                      /\ q.pc = "probe" =>
                            Cardinality(CallsOf(q, "getPages")) = Len(q.outcomes) + 1
                      /\ q.pc = "done" =>
                            /\ q.status = 200 /\ q.error = ""
                            /\ Len(q.outcomes) = Len(q.repos)

\* A scan met a 404 on its first repository, went on, and found the second
\* one enabled.
C8_Witness ==
    \E r \in Slots :
        /\ req[r].kind = "list-pages-sites" /\ req[r].pc = "done"
        /\ Len(req[r].outcomes) = 2
        /\ req[r].outcomes[1].status = 404
        /\ SiteNames(req[r].sites) = {req[r].repos[2]}
        /\ req[r].status = 200

\* Probe answers: Pages enabled, or a failed probe.
ProbeEnabled(o) == o.status = 200 /\ o.parsable
ProbeFailed(o) == o.status # 404 /\ ~ProbeEnabled(o)

\* C9: in a scan, a failed probe (non-success status, thrown error,
\* unparsable body) never fails the aggregate and never affects the other
\* probes: every listed repository is probed, every Enabled one is in the
\* result, the failed one is not, and the answer is 200.
C9_ProbeFailureIsolated ==
    \A r \in Slots :
        LET q == req[r] IN
        (q.kind = "list-pages-sites" /\ ProbeEnabled(q.answer)) =>
            /\ q.pc \in {"probe", "done"}
            /\ \A i \in 1..Len(q.outcomes) :
                  /\ ProbeEnabled(q.outcomes[i]) =>
                        [repository |-> q.repos[i], owner |-> q.account]
                            \in Range(q.sites)
                  /\ ProbeFailed(q.outcomes[i]) =>
                        q.repos[i] \notin SiteNames(q.sites)
            /\ q.pc = "done" =>
                  /\ q.status = 200 /\ q.error = ""
                  /\ Len(q.outcomes) = Len(q.repos)
                  /\ \A i \in 1..Len(q.repos) :
                        \E c \in CallsOf(q, "getPages") :
                            q.upstream[c].repo = q.repos[i]

\* A scan whose first probe failed with a 500 and whose second probe found
\* Pages enabled has answered.
C9_Witness ==
    \E r \in Slots :
        /\ req[r].kind = "list-pages-sites" /\ req[r].pc = "done"
        /\ Len(req[r].outcomes) = 2
        /\ req[r].outcomes[1].status = 500
        /\ ProbeEnabled(req[r].outcomes[2])
        /\ SiteNames(req[r].sites) = {req[r].repos[2]}
        /\ req[r].status = 200

\* C10: when the repository listing fails with a non-success status, the
\* handler answers with the sanitizer's status and message and issues no
\* probe.
C10_ListingFailureIsFatal ==
    \A r \in Slots :
        LET q == req[r] IN
        (q.kind = "list-pages-sites" /\ q.answer.status > 0 /\ ~IsOk(q.answer)) =>
            /\ q.pc = "done"
            /\ q.status = sanitizeGitHubError(q.answer.status).status
            /\ q.status \in {400, 403, 404, 502}
            /\ q.error = sanitizeGitHubError(q.answer.status).message
            /\ CallsOf(q, "getPages") = {}
            /\ Len(q.upstream) = 1
            /\ q.outcomes = <<>> /\ q.sites = <<>>

\* A listing answered 500 and the request was answered 502.
C10_Witness ==
    \E r \in Slots :
        /\ req[r].kind = "list-pages-sites" /\ req[r].pc = "done"
        /\ req[r].answer.status = 500
        /\ req[r].status = 502
        /\ req[r].upstream = <<Call("listRepos", req[r].account, "")>>

\* The summaries of the repositories repos[1..n] whose probe answered with a
\* Pages configuration, in listing order.
RECURSIVE EnabledPrefix(_, _, _, _)
EnabledPrefix(repos, outcomes, account, n) ==
    IF n = 0 THEN <<>>
    ELSE LET before == EnabledPrefix(repos, outcomes, account, n - 1)
         IN  IF outcomes[n].status = 200 /\ outcomes[n].parsable
             THEN before \o <<[repository |-> repos[n], owner |-> account]>>
             ELSE before

\* C11: the sites array of list-pages-sites is exactly the subsequence of the
\* listed repositories whose probe result is Enabled, in listing order: none
\* missing, none other present, none twice, order unchanged.
C11_SitesAreEnabledSubsequence ==
    \A r \in Slots :
        LET q == req[r] IN
        q.kind = "list-pages-sites" =>
            /\ q.sites = EnabledPrefix(q.repos, q.outcomes, q.account,
                                       Len(q.outcomes))
            /\ Cardinality(SiteNames(q.sites)) = Len(q.sites)
            /\ (q.pc = "done" /\ q.payload = "sites") =>
                  Len(q.outcomes) = Len(q.repos)

\* A scan listed "tools" before "blog", found both enabled, and answered
\* with the two in that order.
C11_Witness ==
    \E r \in Slots :
        /\ req[r].kind = "list-pages-sites" /\ req[r].pc = "done"
        /\ req[r].repos = <<"tools", "blog">>
        /\ Len(req[r].sites) = 2
        /\ req[r].sites[1].repository = "tools"
        /\ req[r].sites[2].repository = "blog"
        /\ req[r].status = 200

\* C12: a request whose authentication yields no identity is answered 401 by
\* that very step: the window map is left as it was (checkRateLimit is not
\* called), no profile lookup is made and no upstream call is made.
C12_UnauthenticatedAborts ==
    [][\A r \in Slots :
          (/\ req[r].pc \in {"auth", "token"}
           /\ req'[r] # req[r]
           /\ req'[r].user = NoUser)
          => /\ req'[r].pc = "done" /\ req'[r].status = 401
             /\ req'[r].error # "" /\ req'[r].payload = ""
             /\ req'[r].rlCalls = 0 /\ req'[r].lookups = 0
             /\ req'[r].upstream = <<>>
             /\ requestCounts' = requestCounts
             /\ rlLog' = rlLog]_vars

\* An unauthenticated request of a rate-limited handler was answered 401
\* while the window map already held entries of earlier requests.
C12_Witness ==
    \E r \in Slots :
        /\ req[r].kind \in RateLimitedKinds /\ req[r].body = "valid"
        /\ req[r].pc = "done" /\ req[r].user = NoUser
        /\ req[r].status = 401
        /\ DOMAIN requestCounts # {}

\* C13: in every handler, an authenticated identity whose profile lookup
\* yields no account name is answered 403, never 401 or another status, and
\* no upstream call is made.
C13_MissingProfileIs403 ==
    \A r \in Slots :
        LET q == req[r] IN
        (/\ q.pc = "done" /\ q.user # NoUser
         /\ q.lookups > 0 /\ q.account = NoProfile)
        => (q.status = 403 /\ q.upstream = <<>>)

SchemaKinds ==
    {"list-pages-sites", "get-pages-info", "enable-github-pages",
     "rename-branch"}

\* C14: in every handler that validates its body against a schema, a body
\* that violates the schema is answered 400 with per-field messages, before
\* authentication, rate limiting and any upstream call.
C14_SchemaViolationIs400 ==
    \A r \in Slots :
        LET q == req[r] IN
        (q.kind \in SchemaKinds /\ q.body = "invalid")
        => /\ q.pc = "done" /\ q.status = 400 /\ q.payload = "details"
           /\ q.user = NoUser /\ q.rlCalls = 0 /\ q.lookups = 0
           /\ q.upstream = <<>>

\* The request was answered because an upstream call failed / because
\* something threw locally.
UpstreamFailed(q) ==
    /\ q.answer # NoOutcome /\ q.answer.status # 0 /\ ~IsOk(q.answer)
    /\ ~(q.kind = "get-pages-info" /\ q.answer.status = 404)

LocalException(q) ==
    \/ q.body = "unparsable"
    \/ q.answer # NoOutcome /\ q.answer.status = 0
    \/ q.answer # NoOutcome /\ IsOk(q.answer) /\ ~q.answer.parsable

\* C15: no error response depends on the text of a raw upstream body or of a
\* local exception: an upstream failure is answered with exactly the
\* sanitizer's status and message, a local exception with 500 and the
\* generic message.
C15_ErrorsCarryNoRawText ==
    \A r \in Slots :
        LET q == req[r] IN
        (q.pc = "done" /\ q.error # "")
        => /\ q.error \notin RawTexts
           /\ UpstreamFailed(q) =>
                 /\ q.status = sanitizeGitHubError(q.answer.status).status
                 /\ q.error = sanitizeGitHubError(q.answer.status).message
           /\ LocalException(q) =>
                 (q.status = 500 /\ q.error = sanitizeGeneralError)

\* The outward status the mapping table gives an upstream status.
OutwardStatus(s) ==
    IF s \in {401, 403} THEN 403
    ELSE IF s = 404 THEN 404
    ELSE IF s = 422 THEN 400
    ELSE 502

\* C16: the sanitizer maps 401 and 403 to 403, 404 to 404, 422 to 400 and
\* every 5xx or unmapped status to 502, with a message fixed per outward
\* status; every handler answers an upstream failure with exactly that
\* status.
C16_UpstreamFailureStatus ==
    /\ \A s \in FailStatuses :
          /\ sanitizeGitHubError(s).status = OutwardStatus(s)
          /\ sanitizeGitHubError(s).message \notin RawTexts
    /\ \A r \in Slots :
          LET q == req[r] IN
          (q.pc = "done" /\ UpstreamFailed(q))
          => q.status = OutwardStatus(q.answer.status)

\* C17: every list-pages-sites request eventually produces a response, even
\* when an upstream call never answers (the call is abandoned after a
\* timeout).
C17_ListAlwaysResponds ==
    \A r \in Slots :
        (req[r].kind = "list-pages-sites" /\ req[r].pc \notin {"idle", "done"})
            ~> (req[r].pc = "done")

\* C18: a list-pages-sites scan that completes has probed every repository
\* the account owns exactly once, whatever their number, and has made a
\* single listing call.
C18_EveryOwnedRepoProbedOnce ==
    \A r \in Slots :
        LET q == req[r] IN
        (q.kind = "list-pages-sites" /\ q.pc = "done" /\ q.payload = "sites")
        => /\ Cardinality(CallsOf(q, "listRepos")) = 1
           /\ Cardinality(CallsOf(q, "getPages")) = Len(q.owned)
           /\ \A i \in 1..Len(q.owned) :
                 Cardinality({k \in CallsOf(q, "getPages") :
                                 q.upstream[k].repo = q.owned[i]}) = 1

\* C19 as stated: each handler consults the rate limiter only after the
\* identity is resolved and the ownership check has passed, so a request
\* answered 403 has made no checkRateLimit call and a request for another
\* account's owner is answered 403 whatever the budget.
C19_LimiterAfterOwnership ==
    \A r \in Slots :
        LET q == req[r] IN
        q.kind \in RateLimitedKinds =>
            /\ (q.pc = "done" /\ q.status = 403 /\ q.upstream = <<>>) =>
                  q.rlCalls = 0
            /\ q.rlCalls > 0 =>
                  /\ q.account # NoProfile
                  /\ q.kind \in OwnerCheckedKinds => q.owner = q.account

\* C19 amended: list-pages-sites, get-pages-info and enable-github-pages
\* call checkRateLimit once, right after authentication and before the
\* profile lookup and the ownership check; a request answered 403 has
\* consumed one unit of the identity's budget, and a request of an identity
\* whose budget is exhausted is answered 429 without any lookup, whatever its
\* owner field.  rename-branch and create-branch never call checkRateLimit.
C19_LimiterRightAfterAuth ==
    \A r \in Slots :
        LET q == req[r] IN
        IF q.kind \in RateLimitedKinds
        THEN /\ q.rlCalls \in {0, 1}
             /\ (q.rlCalls = 1) <=> (q.user # NoUser)
             /\ q.lookups > 0 => (q.rlCalls = 1 /\ q.rl.allowed)
             /\ (q.pc = "done" /\ q.status = 403 /\ q.upstream = <<>>) =>
                   (q.rlCalls = 1 /\ q.rl.allowed /\ q.lookups = 1)
             /\ (q.rlCalls = 1 /\ ~q.rl.allowed) =>
                   /\ q.pc = "done" /\ q.status = 429
                   /\ q.lookups = 0 /\ q.upstream = <<>>
        ELSE q.rlCalls = 0

\* A request naming another account's owner, sent by an identity whose
\* budget is exhausted, was answered 429.
C19_Witness ==
    \E r \in Slots :
        /\ req[r].kind \in OwnerCheckedKinds \cap RateLimitedKinds
        /\ req[r].pc = "done" /\ req[r].status = 429
        /\ req[r].user # NoUser /\ req[r].owner # AccountOf(req[r].user)
        /\ req[r].rlCalls = 1 /\ req[r].lookups = 0

\* The calls of log that were allowed and made in [from, from + WindowMs).
AllowedWithin(log, from) ==
    {i \in 1..Len(log) :
        /\ log[i].result.allowed
        /\ log[i].at >= from /\ log[i].at < from + WindowMs}

\* The calls of log that fall in the same fixed window as call i.
SameWindow(log, i) ==
    {j \in 1..Len(log) : WindowOpener(log, j) = WindowOpener(log, i)}

\* C20 as stated (sliding window): for every identity, any interval of
\* length WindowMs, wherever it starts, holds at most N allowed calls.
C20_SlidingWindow ==
    \A u \in Users : \A i \in 1..Len(rlLog[u]) :
        Cardinality(AllowedWithin(rlLog[u], rlLog[u][i].at)) <= maxRequests

\* C20 amended (fixed window): the windows of an identity do not slide; the
\* calls of one window all report the same resetAt, lie in the WindowMs
\* before it, and at most N of them are allowed.  An interval of length
\* WindowMs can straddle two windows and holds at most 2N allowed calls.
C20_FixedWindow ==
    \A u \in Users : \A i \in 1..Len(rlLog[u]) :
        LET log == rlLog[u]
            W == SameWindow(log, i)
        IN  /\ Cardinality({j \in W : log[j].result.allowed}) <= maxRequests
            /\ \A j \in W :
                  /\ log[j].result.resetAt = log[i].result.resetAt
                  /\ log[j].at < log[j].result.resetAt
                  /\ log[j].at >= log[j].result.resetAt - WindowMs
            /\ Cardinality(AllowedWithin(log, log[i].at)) <= 2 * maxRequests

\* More than N calls of one identity were allowed within one interval of
\* length WindowMs that straddles two windows.
C20_Witness ==
    \E u \in Users : \E i \in 1..Len(rlLog[u]) :
        /\ Cardinality(AllowedWithin(rlLog[u], rlLog[u][i].at)) > maxRequests
        /\ \E j \in AllowedWithin(rlLog[u], rlLog[u][i].at) :
              WindowOpener(rlLog[u], j) # WindowOpener(rlLog[u], i)

\* Identity u has a stored window whose resetAt has passed.
ExpiredEntry(u) ==
    u \in DOMAIN requestCounts /\ now >= requestCounts[u].resetAt

\* C21: every stored window whose resetAt has passed is eventually removed
\* from the window map (by the maintenance sweep), so the map does not keep
\* the windows of identities that stopped making requests.
C21_ExpiredWindowsSwept ==
    \A u \in Users : ExpiredEntry(u) ~> ~ExpiredEntry(u)

\* The map after calls 1..n of log (the calls of identity u) are replayed on
\* an empty map with no sweep in between.
RECURSIVE ReplayedStore(_, _, _)
ReplayedStore(u, log, n) ==
    IF n = 0 THEN <<>>
    ELSE checkRateLimit(ReplayedStore(u, log, n - 1), u, log[n].at,
                        DEFAULT_RATE_LIMIT).store

\* C22: cleanupRateLimitStore may run at any point between checkRateLimit
\* calls: every call returns the (allowed, remaining, resetAt) it returns in
\* the run of the same calls without any sweep.
C22_CleanupIsTransparent ==
    \A u \in Users : \A i \in 1..Len(rlLog[u]) :
        rlLog[u][i].result =
            checkRateLimit(ReplayedStore(u, rlLog[u], i - 1), u,
                           rlLog[u][i].at, DEFAULT_RATE_LIMIT).result

\* A sweep removed an identity's expired window and the identity then called
\* again: the call found no entry although it was not the identity's first.
C22_Witness ==
    \E u \in Users : \E i \in 2..Len(rlLog[u]) :
        /\ ~rlLog[u][i].had
        /\ rlLog[u][i - 1].stored > maxRequests

\* C23: an identity's entry leaves the window map only through
\* cleanupRateLimitStore and only when its resetAt has passed:
\* checkRateLimit never deletes an entry, and the sweep removes exactly the
\* expired entries and leaves every other entry's count and resetAt as it was.
C23_EntriesLeaveOnlyBySweep ==
    [][/\ \A u \in DOMAIN requestCounts \ DOMAIN requestCounts' :
             rlLog' = rlLog /\ now >= requestCounts[u].resetAt
       /\ rlLog' # rlLog => DOMAIN requestCounts \subseteq DOMAIN requestCounts'
       /\ (rlLog' = rlLog /\ requestCounts' # requestCounts) =>
             /\ DOMAIN requestCounts' =
                   {u \in DOMAIN requestCounts : now < requestCounts[u].resetAt}
             /\ \A u \in DOMAIN requestCounts' :
                   requestCounts'[u] = requestCounts[u]]_vars

\* A sweep has removed the expired window of one identity and kept the
\* unexpired window of the other.
C23_Witness ==
    /\ Cardinality(DOMAIN requestCounts) = 1
    /\ \A u \in Users : Len(rlLog[u]) > 0
    /\ \A u \in DOMAIN requestCounts : now < requestCounts[u].resetAt

\* C24: in a scan, every repository whose probe fails (a non-success status
\* other than 404, or a thrown error) has a log entry; only the repositories
\* answered 404 are dropped without one.
C24_FailedProbesAreLogged ==
    \A r \in Slots :
        LET q == req[r] IN
        q.kind = "list-pages-sites" =>
            \A i \in 1..Len(q.outcomes) :
                /\ ProbeFailed(q.outcomes[i]) => q.repos[i] \in Range(q.logged)
                /\ ~ProbeFailed(q.outcomes[i]) => q.repos[i] \notin Range(q.logged)

\* C25: a checkRateLimit call of one identity changes neither the stored
\* window nor the history of any other identity, and the result it returns
\* is the one it would return had no other identity ever called.
C25_IdentitiesAreIsolated ==
    [][\A u \in Users :
          rlLog'[u] # rlLog[u] =>
             /\ \A v \in Users \ {u} :
                   /\ rlLog'[v] = rlLog[v]
                   /\ (v \in DOMAIN requestCounts') = (v \in DOMAIN requestCounts)
                   /\ v \in DOMAIN requestCounts =>
                         requestCounts'[v] = requestCounts[v]
             /\ LET log == rlLog'[u]
                    n   == Len(log)
                IN  log[n].result =
                       checkRateLimit(ReplayedStore(u, log, n - 1), u,
                                      log[n].at, DEFAULT_RATE_LIMIT).result]_vars

\* Two identities called in the same window: one has used up its budget and
\* is refused, the other is still allowed.
C25_Witness ==
    \E u, v \in Users :
        /\ u # v
        /\ Len(rlLog[u]) > maxRequests /\ Len(rlLog[v]) > 0
        /\ ~rlLog[u][Len(rlLog[u])].result.allowed
        /\ rlLog[v][Len(rlLog[v])].result.allowed
        /\ rlLog[v][Len(rlLog[v])].at = rlLog[u][Len(rlLog[u])].at

\* All checkRateLimit calls made so far, over every identity.
AllLoggedCalls ==
    UNION {{<<u, i>> : i \in 1..Len(rlLog[u])} : u \in Users}

\* C26: a request to list-pages-sites, get-pages-info or enable-github-pages
\* calls checkRateLimit at most once, and exactly once when it has passed
\* validation and authentication; a scan uses one unit of budget however
\* many upstream calls it issues.
C26_OneUnitPerRequest ==
    /\ Cardinality(AllLoggedCalls) <= started
    /\ \A r \in Slots :
          LET q == req[r] IN
          q.kind \in RateLimitedKinds =>
             /\ q.rlCalls <= 1
             /\ (q.body # "valid" \/ q.pc = "auth") => q.rlCalls = 0
             /\ (q.body = "valid" /\ q.pc # "auth") =>
                   (q.rlCalls = 1) = (q.user # NoUser)
             /\ q.upstream # <<>> =>
                   (q.rlCalls = 1 /\ Len(rlLog[q.user]) >= 1)

\* The only request so far was a scan that issued a listing call and two
\* probes and made a single checkRateLimit call.
C26_Witness ==
    \E r \in Slots :
        /\ req[r].kind = "list-pages-sites" /\ req[r].pc = "done"
        /\ Len(req[r].upstream) = 3 /\ req[r].rlCalls = 1
        /\ started = 1
        /\ Cardinality(AllLoggedCalls) = 1

\* C27: in the wizard, once every pending get-pages-info status check has
\* been answered, isEnabled and pagesUrl are those of the selected
\* repository: the answer written last is the answer for selectedRepo, in
\* whatever order the answers arrive.
C27_StatusIsOfSelectedRepo ==
    (wizard.checks = <<>> /\ ~wizard.isLoading /\ wizard.shownFor # "")
    => /\ wizard.shownFor = wizard.selectedRepo
       /\ (wizard.isEnabled /\ wizard.pagesUrl # NoUrl) =>
             wizard.pagesUrl = UrlOf(wizard.selectedRepo)

\* C28: in the wizard, whenever enable-github-pages is invoked, the branch
\* sent is one that was chosen while the repository sent was selected.
C28_BranchBelongsToRepo ==
    wizard.sent # NoEnable => wizard.sent.branchFor = wizard.sent.repo

\* C29: in RepositorySettingsDialog, delete-repo is invoked only after the
\* repository's name was typed exactly into the confirmation field, as
\* delete-branch is invoked only when the typed confirmation equals the
\* selected branch name.
C29_DeleteNeedsTypedName ==
    \A c \in dialog.invoked : c.typed = c.target

\* C30: the resetAt a call returns is the time of its window's first call
\* plus W, the same for every call of the window; the resetAt values an
\* identity receives never decrease; every stored window has count >= 1.
C30_ResetAtPerWindow ==
    /\ \A u \in Users : \A i \in 1..Len(rlLog[u]) :
          LET log == rlLog[u] IN
          /\ log[i].result.resetAt = log[WindowOpener(log, i)].at + WindowMs
          /\ \A j \in i..Len(log) :
                log[i].result.resetAt <= log[j].result.resetAt
    /\ \A u \in DOMAIN requestCounts :
          /\ requestCounts[u].count >= 1
          /\ requestCounts[u].resetAt =
                rlLog[u][Len(rlLog[u])].result.resetAt

\* An identity called twice in one window and again in a later window.
C30_Witness ==
    \E u \in Users :
        /\ Len(rlLog[u]) >= 3
        /\ rlLog[u][1].result.resetAt = rlLog[u][2].result.resetAt
        /\ rlLog[u][2].at > rlLog[u][1].at
        /\ rlLog[u][3].result.resetAt > rlLog[u][2].result.resetAt

====
